---- MODULE Spec2Model ----
(***************************************************************************)
(* Biometric gate of MediVault (services/biometricService.ts): the secure  *)
(* store with its three keys, the device's biometric capability, and the   *)
(* asynchronous service calls, modelled one platform call at a time.  A    *)
(* call's pc names the platform call it is awaiting; an action is the      *)
(* completion of that platform call together with the code that runs up to *)
(* the next await.  The identity provider adapter                          *)
(* (services/firebaseAuthService.ts) and the login screen are modelled the *)
(* same way, each with a specification of its own (SpecAuth, SpecLogin).   *)
(***************************************************************************)
EXTENDS Naturals, Sequences, FiniteSets, TLC

\* ------------------------------------------------------------------ constants

BIOMETRIC_ENABLED_KEY == "medivault_biometric_enabled"
STORED_EMAIL_KEY == "medivault_stored_email"
STORED_PASSWORD_KEY == "medivault_stored_password"

\* What SecureStore.getItemAsync yields for a key that is not stored.
NULL == "<null>"

\* Inputs.  The login screen only ever enrolls the trimmed, non-empty email and
\* the non-empty password of a sign-in that succeeded, so no empty string.
Emails == {"a@b.com", "c@d.com"}
Passwords == {"secret1", "secret2"}
PromptMessages == {NULL, "Confirm it is you"}

\* Concurrent async calls of the service (JavaScript tasks).
Procs == {"t1", "t2"}

\* BiometricAuthResult.error of the three prechecks.
ErrNotAvailable == "Biometric authentication is not available on this device"
ErrNotEnabled == "Biometric login is not enabled"
ErrNoStoredCredentials == "No stored credentials found. Please log in with your password first."

\* result.error of LocalAuthentication.authenticateAsync when success is false.
PromptErrorCodes ==
  {"system_cancel", "app_cancel", "authentication_failed", "not_enrolled",
   "not_available", "passcode_not_set", "timeout", "user_cancel", "lockout"}

\* error.message of an exception thrown by the platform call ("" : no message).
ThrownMessages == {"", "native module failure"}

\* LocalAuthentication.AuthenticationType, plus a type the switch does not know.
AuthenticationTypes == {"FINGERPRINT", "FACIAL_RECOGNITION", "IRIS", "OTHER"}

\* JavaScript truthiness of a string or null.
Truthy(v) == v # NULL /\ v # ""

EmptyStore ==
  [k \in {BIOMETRIC_ENABLED_KEY, STORED_EMAIL_KEY, STORED_PASSWORD_KEY} |-> NULL]

NoCredentials == [email |-> NULL, password |-> NULL]

VARIABLES
  secureStore,      \* expo-secure-store: key -> stored string or NULL
  deviceHardware,   \* LocalAuthentication.hasHardwareAsync() of the device
  deviceEnrolled,   \* LocalAuthentication.isEnrolledAsync() of the device
  calls,            \* per task: the service call it is running
  lastMut,          \* the store-mutating call that completed last
  google,           \* firebaseAuthService.ts: the module-level Google state
  backend,          \* Firebase Auth: the accounts and the signed-in user
  authCall,         \* the identity provider adapter call that is running
  login,            \* LoginScreen: the mounted view, its timer and attempts
  probe             \* a capability probe called on its own

gateVars == <<secureStore, deviceHardware, deviceEnrolled, calls, lastMut, probe>>

authVars == <<google, backend, authCall>>

vars ==
  <<secureStore, deviceHardware, deviceEnrolled, calls, lastMut, authVars, login, probe>>

\* ---------------------------------- identity provider adapter: pure functions

\* SignUpData.displayName is optional: "" stands for a name not provided.
DisplayNames == {"", "Ann"}

\* The codes getAuthErrorMessage has an entry for.
MappedAuthCodes ==
  {"auth/email-already-in-use", "auth/invalid-email", "auth/operation-not-allowed",
   "auth/weak-password", "auth/user-disabled", "auth/user-not-found",
   "auth/wrong-password", "auth/too-many-requests", "auth/network-request-failed",
   "auth/invalid-credential", "auth/account-exists-with-different-credential"}

\* An error caught by the adapter: error.code (NULL: none) and error.message.
NoError == [code |-> NULL, message |-> NULL]

\* What a Firebase Auth call rejects with: a FirebaseError of a mapped code or
\* of a code without an entry, or an exception that carries no code.
FirebaseErrors ==
  {[code |-> c, message |-> "Firebase: Error (" \o c \o ")."] :
     c \in MappedAuthCodes \cup {"auth/internal-error"}}
  \cup {[code |-> NULL, message |-> m] : m \in ThrownMessages}

\* statusCodes of the Google Sign-In module, and what its calls reject with.
SIGN_IN_CANCELLED == "SIGN_IN_CANCELLED"
IN_PROGRESS == "IN_PROGRESS"
PLAY_SERVICES_NOT_AVAILABLE == "PLAY_SERVICES_NOT_AVAILABLE"

GoogleErrors ==
  {[code |-> c, message |-> m] :
     c \in {SIGN_IN_CANCELLED, IN_PROGRESS, PLAY_SERVICES_NOT_AVAILABLE,
            "SIGN_IN_REQUIRED", NULL},
     m \in ThrownMessages}

\* signInResult.data?.idToken of a resolved GoogleSignin.signIn().
IdTokens == {NULL, "", "id-token"}

ErrGoogleUnavailable ==
  "Google Sign-In is not available. Please use a development build instead of Expo Go."
ErrNoIdToken == "No ID token returned from Google Sign-In"
ErrGoogleCancelled == "Google Sign-In was cancelled"
ErrGoogleInProgress == "Google Sign-In is already in progress"
ErrNoPlayServices == "Google Play Services is not available on this device"
ErrGoogleFallback == "Failed to sign in with Google"
ErrAuthFallback == "An authentication error occurred. Please try again."

getAuthErrorMessage(errorCode) ==
  CASE errorCode = "auth/email-already-in-use" ->
         "This email is already registered. Please sign in instead."
    [] errorCode = "auth/invalid-email" -> "Please enter a valid email address."
    [] errorCode = "auth/operation-not-allowed" ->
         "Email/password sign-in is not enabled."
    [] errorCode = "auth/weak-password" -> "Password should be at least 6 characters."
    [] errorCode = "auth/user-disabled" -> "This account has been disabled."
    [] errorCode = "auth/user-not-found" -> "No account found with this email."
    [] errorCode = "auth/wrong-password" -> "Incorrect password. Please try again."
    [] errorCode = "auth/too-many-requests" ->
         "Too many failed attempts. Please try again later."
    [] errorCode = "auth/network-request-failed" ->
         "Network error. Please check your connection."
    [] errorCode = "auth/invalid-credential" ->
         "Invalid credentials. Please check your email and password."
    [] errorCode = "auth/account-exists-with-different-credential" ->
         "An account already exists with the same email address but different sign-in credentials."
    [] OTHER -> ErrAuthFallback

\* signInWithGoogle: the catch block.
SignInWithGoogleErrorMessage(statusCodes, error) ==
  IF statusCodes /\ error.code = SIGN_IN_CANCELLED THEN ErrGoogleCancelled
  ELSE IF statusCodes /\ error.code = IN_PROGRESS THEN ErrGoogleInProgress
  ELSE IF statusCodes /\ error.code = PLAY_SERVICES_NOT_AVAILABLE THEN ErrNoPlayServices
  ELSE IF Truthy(error.message) THEN error.message
  ELSE ErrGoogleFallback

\* Mutant: the id token is not looked at.
IdTokenMissingUnchecked(idToken) == FALSE

\* signInWithGoogle: if (!idToken) throw.
IdTokenMissing(idToken) == ~Truthy(idToken)

\* Mutant: the inner catch of signOut passes the Google error on.
SignOutGoogleCatchRethrows(googleError) == googleError

\* signOut: the inner catch ignores the Google error (NoError: nothing is
\* rethrown) and the code proceeds with the Firebase sign-out.
SignOutGoogleCatch(googleError) == NoError

\* How loading the Google Sign-In module at start-up can go: require() throws
\* (Expo Go), everything succeeds, the module has no GoogleSignin export (the
\* configure call then throws a TypeError), or configure() itself throws.
LoadOutcomes == {"absent", "loaded", "noExport", "configureThrows"}

\* Mutant: the availability flag is set before the module is required.
ModuleInitAvailableFirst(outcome) ==
  [GoogleSignin |-> outcome \notin {"absent", "noExport"},
   statusCodes |-> outcome # "absent",
   googleSignInAvailable |-> TRUE,
   load |-> outcome]

\* The module-level try/catch: the three variables keep what was assigned
\* before the statement that threw.
ModuleInit(outcome) ==
  [GoogleSignin |-> outcome \notin {"absent", "noExport"},
   statusCodes |-> outcome # "absent",
   googleSignInAvailable |-> outcome # "absent",
   load |-> outcome]

isGoogleSignInAvailable == google.googleSignInAvailable

\* AuthUser, as mapFirebaseUser builds it (the fields the model follows).
NoUser == [email |-> NULL, displayName |-> NULL]
mapFirebaseUser(email, displayName) == [email |-> email, displayName |-> displayName]

NoAuthRet == [kind |-> "none", message |-> NULL, user |-> NoUser]

\* An adapter call: the external operations it has invoked so far (trace) and
\* the errors they rejected with.
IdleAuthCall ==
  [op |-> "none", pc |-> "idle", origin |-> "none",
   email |-> NULL, password |-> NULL, displayName |-> NULL,
   idToken |-> NULL, trace |-> <<>>, backendError |-> NoError, googleError |-> NoError,
   created |-> FALSE, ret |-> NoAuthRet]

\* --------------------------------------------------- login screen: the data

\* Bounds: attempts in flight at once, automatic attempts per view entry.
MaxPending == 2
MaxAutoAttempts == 2

\* What the two fields can hold when the user taps Sign In.
EmailInputs == {"", " ", " a@b.com"}
PasswordInputs == {"", "secret1"}

\* email.trim() on those inputs.
Trim(text) ==
  CASE text = " " -> ""
    [] text = " a@b.com" -> "a@b.com"
    [] OTHER -> text

\* Alert.alert(title, message); NoAlert: the handler raised none.
NoAlert == [title |-> NULL, message |-> NULL]
Alert(title, message) == [title |-> title, message |-> message]

\* The timer of the auto-login effect, with the two flags its callback closed
\* over.
NoTimer == [pending |-> FALSE, biometricEnabled |-> FALSE, biometricAvailable |-> FALSE]

\* The last handler that ran to its end: which attempt, how it was triggered,
\* how it went, the alert it raised, whether it called clearError(), and the
\* error.message its catch block saw.
NoResult ==
  [kind |-> "none", trigger |-> "none", outcome |-> "none", alert |-> NoAlert,
   clearedError |-> FALSE, message |-> NULL]

\* The Enable-biometrics question promptEnableBiometric asks.
NoEnrollPrompt == [state |-> "none", email |-> NULL, password |-> NULL]

\* A capability probe called on its own: what the platform query did (ok,
\* the types it reported) and what the probe returned.
NoProbeRet == [kind |-> "none", value |-> FALSE, types |-> {}]

IdleProbe ==
  [op |-> "none", pc |-> "idle", hwOk |-> TRUE, enrOk |-> TRUE, typesOk |-> TRUE,
   hw |-> FALSE, enr |-> FALSE, platformTypes |-> {}, ret |-> NoProbeRet]

\* The login view before it is first shown.  biometricAvailable and
\* biometricEnabled are the flags the useBiometric hook hands to the view.
NoLogin ==
  [mounted |-> FALSE, biometricAvailable |-> FALSE, biometricEnabled |-> FALSE,
   statusCheck |-> "idle", timer |-> NoTimer, pending |-> <<>>, autoStarted |-> 0,
   last |-> NoResult, enrollPrompt |-> NoEnrollPrompt,
   clearedOnTeardown |-> FALSE, firedUnmounted |-> FALSE]

NoBackend == [accounts |-> {}, currentUser |-> NULL, googleSignedIn |-> FALSE]

\* ------------------------------------------------------------- pure functions

\* SecureStore.setItemAsync / deleteItemAsync on success (atomic per key).
SetItem(s, k, v) == [s EXCEPT ![k] = v]

\* Mutant: a delete that wipes the whole store.
DeleteItemClearsAll(s, k) == [j \in DOMAIN s |-> NULL]

DeleteItem(s, k) == [s EXCEPT ![k] = NULL]

\* Mutant: deleting a key that is not stored is an error.
DeleteItemAsyncRejectsAbsent(s, k) == s[k] = NULL

\* deleteItemAsync, as the code calls it without looking first, resolves
\* whether or not the key is stored; it rejects only on a store failure.
DeleteItemAsyncRejects(s, k) == FALSE

\* getSupportedBiometricTypes: the switch of the forEach, then the default.
MapBiometricType(t) ==
  CASE t = "FINGERPRINT" -> {"fingerprint"}
    [] t = "FACIAL_RECOGNITION" -> {"facial"}
    [] t = "IRIS" -> {"iris"}
    [] OTHER -> {}

GetSupportedBiometricTypes(types) ==
  LET mapped == UNION {MapBiometricType(t) : t \in types}
  IN IF mapped # {} THEN mapped ELSE {"none"}

\* getSupportedBiometricTypes when the platform query throws.
SupportedTypesOnError == {"none"}

GetBiometricTypeName(types) ==
  IF "facial" \in types THEN "Face ID"
  ELSE IF "fingerprint" \in types THEN "Fingerprint"
  ELSE IF "iris" \in types THEN "Iris"
  ELSE "Biometric"

PromptText(promptMessage, biometricName) ==
  IF Truthy(promptMessage) THEN promptMessage
  ELSE "Login to MediVault with " \o biometricName

IsBiometricAvailable(hasHardware, isEnrolled) == hasHardware /\ isEnrolled

IsBiometricEnabledValue(enabled) == enabled = "true"

GetStoredCredentialsValue(email, password) ==
  IF Truthy(email) /\ Truthy(password)
  THEN [email |-> email, password |-> password]
  ELSE NoCredentials

HasStoredCredentials(credentials) == credentials # NoCredentials

\* Mutant: the availability conjunct forgotten.
CanUseIgnoringAvailability(isAvailable, isEnabled, hasCredentials) ==
  isEnabled /\ hasCredentials

CanUseBiometricLogin(isAvailable, isEnabled, hasCredentials) ==
  isAvailable /\ isEnabled /\ hasCredentials

\* Mutants: a precheck of authenticateWithBiometrics left out.
AuthAfterAvailableUnchecked(isAvailable) == NULL

AuthAfterEnabledUnchecked(isEnabled) == NULL

\* authenticateWithBiometrics: the three prechecks; NULL means "go on".
AuthAfterAvailable(isAvailable) ==
  IF ~isAvailable THEN ErrNotAvailable ELSE NULL

AuthAfterEnabled(isEnabled) ==
  IF ~isEnabled THEN ErrNotEnabled ELSE NULL

\* authenticate without its stored-credentials check.
AuthAfterCredentialsUnchecked(credentials) == NULL

AuthAfterCredentials(credentials) ==
  IF credentials = NoCredentials THEN ErrNoStoredCredentials ELSE NULL

\* authenticateWithBiometrics: the switch on result.error.
PromptErrorMessage(code) ==
  CASE code = "system_cancel" -> "Authentication was cancelled by the system"
    [] code = "app_cancel" -> "Authentication was cancelled"
    [] code = "authentication_failed" -> "Authentication failed. Please try again."
    [] code = "not_enrolled" -> "No biometrics enrolled on this device"
    [] code = "not_available" -> "Biometric authentication is not available"
    [] code = "passcode_not_set" -> "Device passcode is not set"
    [] code = "timeout" -> "Authentication timed out. Please try again."
    [] OTHER -> "Biometric authentication failed"

\* authenticateWithBiometrics: the outer catch.
CaughtErrorMessage(message) ==
  IF Truthy(message) THEN message ELSE "An unexpected error occurred"

\* capability probes: the platform query, false when it throws.
\* hasHardwareAsync with a catch that reports hardware instead of false.
HasHardwareAsyncOptimistic(ok, value) == IF ok THEN value ELSE TRUE

HasHardwareAsync(ok, value) == IF ok THEN value ELSE FALSE
IsEnrolledAsync(ok, value) == IF ok THEN value ELSE FALSE

\* isBiometricEnabled: the stored flag, false when the read throws.
IsBiometricEnabled(ok, value) == IF ok THEN IsBiometricEnabledValue(value) ELSE FALSE

\* ------------------------------------------------- store-mutating operations
\* A mutating operation is a straight line of SecureStore calls.  Each step
\* names the try block it runs in (blk) and what that block's catch does when
\* the call throws: "throw" (the operation throws) or "swallow" (the rest of
\* the block is skipped and the caller goes on).

\* Mutant: storeCredentials forgets the password.
StoreCredentialsStepsEmailOnly ==
  << [act |-> "set", key |-> STORED_EMAIL_KEY, val |-> "$email",
      blk |-> "storeCredentials", onFail |-> "throw"] >>

StoreCredentialsSteps ==
  << [act |-> "set", key |-> STORED_EMAIL_KEY, val |-> "$email",
      blk |-> "storeCredentials", onFail |-> "throw"],
     [act |-> "set", key |-> STORED_PASSWORD_KEY, val |-> "$password",
      blk |-> "storeCredentials", onFail |-> "throw"] >>

ClearStoredCredentialsSteps(blk) ==
  << [act |-> "delete", key |-> STORED_EMAIL_KEY, val |-> NULL,
      blk |-> blk, onFail |-> "swallow"],
     [act |-> "delete", key |-> STORED_PASSWORD_KEY, val |-> NULL,
      blk |-> blk, onFail |-> "swallow"] >>

SetBiometricEnabledSteps(enabled) ==
  IF enabled
  THEN << [act |-> "set", key |-> BIOMETRIC_ENABLED_KEY, val |-> "true",
           blk |-> "setBiometricEnabled", onFail |-> "throw"] >>
  ELSE << [act |-> "delete", key |-> BIOMETRIC_ENABLED_KEY, val |-> NULL,
           blk |-> "setBiometricEnabled", onFail |-> "throw"] >>
       \o ClearStoredCredentialsSteps("clearStoredCredentials#1")

\* Mutant: the flag is set before the credentials are stored.
SetupStepsEnabledFirst ==
  SetBiometricEnabledSteps(TRUE) \o StoreCredentialsSteps

SetupBiometricLoginSteps ==
  StoreCredentialsSteps \o SetBiometricEnabledSteps(TRUE)

DisableBiometricLoginSteps ==
  SetBiometricEnabledSteps(FALSE)
    \o ClearStoredCredentialsSteps("clearStoredCredentials#2")

\* The Error each operation throws from its catch.
ThrowMessage(op) ==
  CASE op = "enroll" -> "Failed to setup biometric login"
    [] op = "disable" -> "Failed to disable biometric login"
    [] op = "setBiometricEnabled" -> "Failed to update biometric settings"
    [] op = "storeCredentials" -> "Failed to store credentials securely"
    [] OTHER -> NULL

MutatingOps ==
  {"enroll", "disable", "setBiometricEnabled", "storeCredentials",
   "clearStoredCredentials"}

Program(c) ==
  CASE c.op = "enroll" -> SetupBiometricLoginSteps
    [] c.op = "disable" -> DisableBiometricLoginSteps
    [] c.op = "setBiometricEnabled" -> SetBiometricEnabledSteps(c.flag)
    [] c.op = "storeCredentials" -> StoreCredentialsSteps
    [] c.op = "clearStoredCredentials" ->
         ClearStoredCredentialsSteps("clearStoredCredentials")
    [] OTHER -> << >>

ValueOf(c, step) ==
  CASE step.val = "$email" -> c.email
    [] step.val = "$password" -> c.password
    [] OTHER -> step.val

\* The first step after index i that is outside step i's try block.
SkipBlock(prog, i) ==
  LET after == {j \in (i + 1)..Len(prog) : prog[j].blk # prog[i].blk}
  IN IF after = {} THEN Len(prog) + 1
     ELSE CHOOSE j \in after : \A k \in after : j <= k

\* ------------------------------------------------------------------ the calls

NoRet ==
  [kind |-> "none", value |-> FALSE, error |-> NULL, credentials |-> NoCredentials]

IdleCall ==
  [op |-> "none", pc |-> "idle", idx |-> 0,
   email |-> NULL, password |-> NULL, flag |-> FALSE, promptMessage |-> NULL,
   hw |-> FALSE, enr |-> FALSE, enabled |-> FALSE, cemail |-> NULL,
   credentials |-> NoCredentials,
   prompts |-> 0, outcome |-> NULL, verified |-> FALSE, credRead |-> FALSE,
   disableInFlight |-> FALSE,
   faults |-> FALSE, store0 |-> EmptyStore, ret |-> NoRet]

NoMut ==
  [op |-> "none", ok |-> FALSE, email |-> NULL, password |-> NULL, faults |-> FALSE,
   before |-> EmptyStore]

\* The call returns (its promise resolves) or throws (its promise rejects).
Return(c, value, error, credentials) ==
  [c EXCEPT !.pc = "done",
            !.ret = [kind |-> "returned", value |-> value, error |-> error,
                     credentials |-> credentials]]

Throw(c, error) ==
  [c EXCEPT !.pc = "done",
            !.ret = [kind |-> "thrown", value |-> FALSE, error |-> error,
                     credentials |-> NoCredentials]]

\* Mutant: a failure of authenticateWithBiometrics that rejects.
FailThrows(c, error) == Throw(c, error)

\* authenticateWithBiometrics: { success: false, error }.
Fail(c, error) == Return(c, FALSE, error, NoCredentials)

Init ==
  /\ secureStore = EmptyStore
  /\ deviceHardware \in BOOLEAN
  /\ deviceEnrolled \in BOOLEAN
  /\ calls = [p \in Procs |-> IdleCall]
  /\ lastMut = NoMut
  /\ google = ModuleInit("absent")
  /\ backend = NoBackend
  /\ authCall = IdleAuthCall
  /\ login = NoLogin
  /\ probe = IdleProbe

\* Callers serialize the calls: a call starts when no other is in flight.
NoCallInFlight == \A q \in Procs : calls[q].pc = "idle"

Begin(p, c) ==
  /\ calls' = [calls EXCEPT ![p] = [c EXCEPT !.store0 = secureStore]]
  /\ UNCHANGED <<secureStore, deviceHardware, deviceEnrolled, lastMut, authVars, login, probe>>

BeginMutation(op, email, password, flag) ==
  LET c == [IdleCall EXCEPT !.op = op, !.email = email, !.password = password,
                            !.flag = flag]
  IN IF 1 > Len(Program(c)) THEN Return(c, TRUE, NULL, NoCredentials)
     ELSE [c EXCEPT !.pc = "store", !.idx = 1]

\* canUseBiometricLogin()
StartCanOffer(p) ==
  /\ NoCallInFlight
  /\ Begin(p, [IdleCall EXCEPT !.op = "canOffer", !.pc = "hasHardware"])

\* authenticateWithBiometrics(promptMessage)
StartAuthenticate(p) ==
  /\ NoCallInFlight
  /\ \E m \in PromptMessages :
       Begin(p, [IdleCall EXCEPT !.op = "authenticate", !.pc = "hasHardware",
                                 !.promptMessage = m])

\* setupBiometricLogin(email, password)
StartEnroll(p) ==
  /\ NoCallInFlight
  /\ \E e \in Emails, pw \in Passwords :
       Begin(p, BeginMutation("enroll", e, pw, FALSE))

\* disableBiometricLogin()
StartDisable(p) ==
  /\ NoCallInFlight
  /\ Begin(p, BeginMutation("disable", NULL, NULL, FALSE))

\* Direct calls of the other exported store functions.
StartGetStoredCredentials(p) ==
  /\ NoCallInFlight
  /\ Begin(p, [IdleCall EXCEPT !.op = "getStoredCredentials", !.pc = "getEmail"])

StartSetBiometricEnabled(p) ==
  /\ NoCallInFlight
  /\ \E enabled \in BOOLEAN :
       Begin(p, BeginMutation("setBiometricEnabled", NULL, NULL, enabled))

StartStoreCredentials(p) ==
  /\ NoCallInFlight
  /\ \E e \in Emails, pw \in Passwords :
       Begin(p, BeginMutation("storeCredentials", e, pw, FALSE))

StartClearStoredCredentials(p) ==
  /\ NoCallInFlight
  /\ Begin(p, BeginMutation("clearStoredCredentials", NULL, NULL, FALSE))

\* isBiometricAvailable: hasHardwareAsync() completes.
ProbeHardware(p) ==
  /\ calls[p].pc = "hasHardware"
  /\ \E ok \in BOOLEAN :
       calls' = [calls EXCEPT ![p] =
                   [@ EXCEPT !.hw = HasHardwareAsync(ok, deviceHardware),
                             !.pc = "isEnrolled"]]
  /\ UNCHANGED <<secureStore, deviceHardware, deviceEnrolled, lastMut, authVars, login, probe>>

\* isBiometricAvailable: isEnrolledAsync() completes; authenticate's first check.
ProbeEnrolled(p) ==
  /\ calls[p].pc = "isEnrolled"
  /\ \E ok \in BOOLEAN :
       LET c == [calls[p] EXCEPT !.enr = IsEnrolledAsync(ok, deviceEnrolled)]
           err == AuthAfterAvailable(IsBiometricAvailable(c.hw, c.enr))
       IN calls' = [calls EXCEPT ![p] =
                      IF c.op = "authenticate" /\ err # NULL THEN Fail(c, err)
                      ELSE [c EXCEPT !.pc = "getEnabled"]]
  /\ UNCHANGED <<secureStore, deviceHardware, deviceEnrolled, lastMut, authVars, login, probe>>

\* isBiometricEnabled: getItemAsync(BIOMETRIC_ENABLED_KEY) completes.
ReadEnabled(p) ==
  /\ calls[p].pc = "getEnabled"
  /\ \E ok \in BOOLEAN :
       LET c == [calls[p] EXCEPT
                   !.enabled = IsBiometricEnabled(ok, secureStore[BIOMETRIC_ENABLED_KEY]),
                   !.faults = @ \/ ~ok]
           err == AuthAfterEnabled(c.enabled)
       IN calls' = [calls EXCEPT ![p] =
                      IF c.op = "authenticate" /\ err # NULL THEN Fail(c, err)
                      ELSE [c EXCEPT !.pc = "getEmail"]]
  /\ UNCHANGED <<secureStore, deviceHardware, deviceEnrolled, lastMut, authVars, login, probe>>

\* What the caller of getStoredCredentials does with its result.
AfterCredentials(c, credentials) ==
  CASE c.op = "getStoredCredentials" ->
         Return(c, HasStoredCredentials(credentials), NULL, credentials)
    [] c.op = "canOffer" ->
         Return(c, CanUseBiometricLogin(IsBiometricAvailable(c.hw, c.enr), c.enabled,
                                        HasStoredCredentials(credentials)),
                NULL, NoCredentials)
    [] OTHER ->
         IF AuthAfterCredentials(credentials) # NULL
         THEN Fail(c, AuthAfterCredentials(credentials))
         ELSE [c EXCEPT !.credentials = credentials, !.pc = "getTypes"]

\* getStoredCredentials: getItemAsync(STORED_EMAIL_KEY) completes.
ReadEmail(p) ==
  /\ calls[p].pc = "getEmail"
  /\ \E ok \in BOOLEAN :
       calls' = [calls EXCEPT ![p] =
                   IF ok
                   THEN [@ EXCEPT !.cemail = secureStore[STORED_EMAIL_KEY],
                                  !.credRead = TRUE, !.pc = "getPassword"]
                   ELSE AfterCredentials([@ EXCEPT !.faults = TRUE], NoCredentials)]
  /\ UNCHANGED <<secureStore, deviceHardware, deviceEnrolled, lastMut, authVars, login, probe>>

\* getStoredCredentials: getItemAsync(STORED_PASSWORD_KEY) completes.
ReadPassword(p) ==
  /\ calls[p].pc = "getPassword"
  /\ \E ok \in BOOLEAN :
       LET c == calls[p]
       IN calls' = [calls EXCEPT ![p] =
                      IF ok
                      THEN AfterCredentials(
                             [c EXCEPT !.cemail = NULL],
                             GetStoredCredentialsValue(c.cemail,
                                                       secureStore[STORED_PASSWORD_KEY]))
                      ELSE AfterCredentials([c EXCEPT !.cemail = NULL, !.faults = TRUE],
                                            NoCredentials)]
  /\ UNCHANGED <<secureStore, deviceHardware, deviceEnrolled, lastMut, authVars, login, probe>>

\* Another task is in the middle of disableBiometricLogin() (history kept in
\* the call that shows the prompt; always false when calls are serialized).
DisableInFlight(p) ==
  \E q \in Procs \ {p} : calls[q].op = "disable" /\ calls[q].pc = "store"

\* getBiometricTypeName() completes and authenticateAsync is invoked.
QueryTypes(p) ==
  /\ calls[p].pc = "getTypes"
  /\ \E ok \in BOOLEAN, types \in SUBSET AuthenticationTypes :
       LET supported == IF ok THEN GetSupportedBiometricTypes(types)
                        ELSE SupportedTypesOnError
       IN calls' = [calls EXCEPT ![p] =
                      [@ EXCEPT !.pc = "prompt", !.prompts = @ + 1,
                                !.disableInFlight = DisableInFlight(p),
                                !.promptMessage =
                                  PromptText(@, GetBiometricTypeName(supported))]]
  /\ UNCHANGED <<secureStore, deviceHardware, deviceEnrolled, lastMut, authVars, login, probe>>

\* LocalAuthentication.authenticateAsync completes: success, an error code, or
\* an exception.
PromptResult(p) ==
  /\ calls[p].pc = "prompt"
  /\ LET c == calls[p]
     IN \/ calls' = [calls EXCEPT ![p] =
                       Return([c EXCEPT !.outcome = "success", !.verified = TRUE],
                              TRUE, NULL, c.credentials)]
        \/ \E code \in PromptErrorCodes :
             calls' = [calls EXCEPT ![p] =
                         Fail([c EXCEPT !.outcome = code], PromptErrorMessage(code))]
        \/ \E message \in ThrownMessages :
             calls' = [calls EXCEPT ![p] =
                         Fail([c EXCEPT !.outcome = "throw"],
                              CaughtErrorMessage(message))]
  /\ UNCHANGED <<secureStore, deviceHardware, deviceEnrolled, lastMut, authVars, login, probe>>

\* The pending SecureStore call of a mutating operation completes: it takes
\* effect, or it throws and leaves the key as it was (atomic per key).
StoreStep(p, act) ==
  /\ calls[p].pc = "store"
  /\ LET c == calls[p]
         prog == Program(c)
         step == prog[c.idx]
         Advance(d, i) == IF i > Len(prog) THEN Return(d, TRUE, NULL, NoCredentials)
                          ELSE [d EXCEPT !.idx = i]
     IN /\ step.act = act
        /\ \/ /\ ~(act = "delete" /\ DeleteItemAsyncRejects(secureStore, step.key))
              /\ secureStore' = IF act = "set"
                                THEN SetItem(secureStore, step.key, ValueOf(c, step))
                                ELSE DeleteItem(secureStore, step.key)
              /\ calls' = [calls EXCEPT ![p] = Advance(c, c.idx + 1)]
           \/ \E fault \in BOOLEAN :
                /\ fault \/ (act = "delete" /\ DeleteItemAsyncRejects(secureStore, step.key))
                /\ UNCHANGED secureStore
                /\ calls' = [calls EXCEPT ![p] =
                               IF step.onFail = "throw"
                               THEN Throw([c EXCEPT !.faults = @ \/ fault],
                                          ThrowMessage(c.op))
                               ELSE Advance([c EXCEPT !.faults = @ \/ fault],
                                            SkipBlock(prog, c.idx))]
  /\ UNCHANGED <<deviceHardware, deviceEnrolled, lastMut, authVars, login, probe>>

SetItemStep(p) == StoreStep(p, "set")
DeleteItemStep(p) == StoreStep(p, "delete")

\* The caller receives the result; the task is free again.
Finish(p) ==
  /\ calls[p].pc = "done"
  /\ LET c == calls[p]
     IN lastMut' = IF c.op \in MutatingOps
                   THEN [op |-> c.op, ok |-> c.ret.kind = "returned",
                         email |-> c.email, password |-> c.password,
                         faults |-> c.faults, before |-> c.store0]
                   ELSE lastMut
  /\ calls' = [calls EXCEPT ![p] = IdleCall]
  /\ UNCHANGED <<secureStore, deviceHardware, deviceEnrolled, authVars, login, probe>>

\* The user adds or removes the device's fingerprints / face.
EnrollmentChange ==
  /\ deviceEnrolled' = ~deviceEnrolled
  /\ UNCHANGED <<secureStore, deviceHardware, calls, lastMut, authVars, login, probe>>

Step(p) ==
  \/ ProbeHardware(p)
  \/ ProbeEnrolled(p)
  \/ ReadEnabled(p)
  \/ ReadEmail(p)
  \/ ReadPassword(p)
  \/ QueryTypes(p)
  \/ PromptResult(p)
  \/ SetItemStep(p)
  \/ DeleteItemStep(p)
  \/ Finish(p)

\* The biometric gate: canOffer, authenticate, enroll, disable, serialized.
Next ==
  \/ \E p \in Procs : StartCanOffer(p)
  \/ \E p \in Procs : StartAuthenticate(p)
  \/ \E p \in Procs : StartEnroll(p)
  \/ \E p \in Procs : StartDisable(p)
  \/ \E p \in Procs : Step(p)
  \/ EnrollmentChange

Spec == Init /\ [][Next]_vars

\* The gate plus direct calls of the exported store functions, serialized.
NextApi ==
  \/ Next
  \/ \E p \in Procs : StartGetStoredCredentials(p)
  \/ \E p \in Procs : StartSetBiometricEnabled(p)
  \/ \E p \in Procs : StartStoreCredentials(p)
  \/ \E p \in Procs : StartClearStoredCredentials(p)

SpecApi == Init /\ [][NextApi]_vars

StoredValues == {NULL, "true"} \cup Emails \cup Passwords

TypeOK ==
  /\ secureStore \in [DOMAIN EmptyStore -> StoredValues]
  /\ secureStore[BIOMETRIC_ENABLED_KEY] \in {NULL, "true"}
  /\ secureStore[STORED_EMAIL_KEY] \in Emails \cup {NULL}
  /\ secureStore[STORED_PASSWORD_KEY] \in Passwords \cup {NULL}
  /\ deviceHardware \in BOOLEAN /\ deviceEnrolled \in BOOLEAN
  /\ \A p \in Procs : calls[p].prompts \in 0..1

\* ------------------------------------------------ identity provider adapter
\* One adapter call at a time; as in the gate, an action is the completion of
\* the awaited external operation plus the code up to the next await.  trace
\* lists the external operations the call has invoked.

AuthBegin(op, pc, email, password, displayName) ==
  /\ authCall.pc = "idle"
  /\ authCall' = [IdleAuthCall EXCEPT !.op = op, !.pc = pc, !.origin = "direct",
                    !.email = email, !.password = password,
                    !.displayName = displayName]
  /\ UNCHANGED <<gateVars, google, backend, login>>

Invoked(operation) == Append(authCall.trace, operation)

AuthReturn(trace, user) ==
  authCall' = [authCall EXCEPT !.pc = "done", !.trace = trace,
                 !.ret = [kind |-> "returned", message |-> NULL, user |-> user]]

\* A Firebase call rejected with e and the catch maps e.code.
BackendFailure(trace, e, message) ==
  authCall' = [authCall EXCEPT !.pc = "done", !.trace = trace, !.backendError = e,
                 !.ret = [kind |-> "thrown", message |-> message, user |-> NoUser]]

StartSignUp ==
  \E email \in Emails, password \in Passwords, displayName \in DisplayNames :
    AuthBegin("signUp", "createUser", email, password, displayName)

CreateUserResult ==
  /\ authCall.pc = "createUser"
  /\ LET trace == Invoked("createUserWithEmailAndPassword")
     IN \/ /\ authCall.email \notin backend.accounts
           /\ backend' = [backend EXCEPT !.accounts = @ \cup {authCall.email},
                                         !.currentUser = authCall.email]
           /\ IF Truthy(authCall.displayName)
              THEN authCall' = [authCall EXCEPT !.pc = "updateProfile",
                                  !.trace = trace, !.created = TRUE]
              ELSE authCall' = [authCall EXCEPT !.pc = "done", !.trace = trace,
                                  !.created = TRUE,
                                  !.ret = [kind |-> "returned", message |-> NULL,
                                           user |-> mapFirebaseUser(authCall.email, NULL)]]
        \/ /\ \E e \in FirebaseErrors :
                BackendFailure(trace, e, getAuthErrorMessage(e.code))
           /\ UNCHANGED backend
  /\ UNCHANGED <<gateVars, google, login>>

UpdateProfileResult ==
  /\ authCall.pc = "updateProfile"
  /\ LET trace == Invoked("updateProfile")
     IN \/ AuthReturn(trace, mapFirebaseUser(authCall.email, authCall.displayName))
        \/ \E e \in FirebaseErrors :
             BackendFailure(trace, e, getAuthErrorMessage(e.code))
  /\ UNCHANGED <<gateVars, google, backend, login>>

StartSignIn ==
  \E email \in Emails, password \in Passwords :
    AuthBegin("signIn", "signInWithEmailAndPassword", email, password, NULL)

SignInResult ==
  /\ authCall.pc = "signInWithEmailAndPassword"
  /\ LET trace == Invoked("signInWithEmailAndPassword")
     IN \/ /\ authCall.email \in backend.accounts
           /\ backend' = [backend EXCEPT !.currentUser = authCall.email]
           /\ AuthReturn(trace, mapFirebaseUser(authCall.email, NULL))
        \/ /\ \E e \in FirebaseErrors :
                BackendFailure(trace, e, getAuthErrorMessage(e.code))
           /\ UNCHANGED backend
  /\ UNCHANGED <<gateVars, google, login>>

StartSignInWithGoogle ==
  /\ authCall.pc = "idle"
  /\ LET c == [IdleAuthCall EXCEPT !.op = "signInWithGoogle", !.origin = "direct"]
     IN IF ~google.googleSignInAvailable \/ ~google.GoogleSignin
        THEN authCall' = [c EXCEPT !.pc = "done",
                            !.ret = [kind |-> "thrown", message |-> ErrGoogleUnavailable,
                                     user |-> NoUser]]
        ELSE authCall' = [c EXCEPT !.pc = "hasPlayServices"]
  /\ UNCHANGED <<gateVars, google, backend, login>>

\* A Google Sign-In call rejected with e: the catch block of signInWithGoogle.
GoogleFailure(trace, e) ==
  authCall' = [authCall EXCEPT !.pc = "done", !.trace = trace, !.googleError = e,
                 !.ret = [kind |-> "thrown",
                          message |-> SignInWithGoogleErrorMessage(google.statusCodes, e),
                          user |-> NoUser]]

HasPlayServicesResult ==
  /\ authCall.pc = "hasPlayServices"
  /\ LET trace == Invoked("hasPlayServices")
     IN \/ authCall' = [authCall EXCEPT !.pc = "googleSignIn", !.trace = trace]
        \/ \E e \in GoogleErrors : GoogleFailure(trace, e)
  /\ UNCHANGED <<gateVars, google, backend, login>>

GoogleSignInResult ==
  /\ authCall.pc = "googleSignIn"
  /\ LET trace == Invoked("GoogleSignin.signIn")
     IN \/ \E idToken \in IdTokens :
             IF IdTokenMissing(idToken)
             THEN /\ authCall' =
                       [authCall EXCEPT !.pc = "done", !.trace = trace,
                          !.idToken = idToken,
                          !.ret = [kind |-> "thrown",
                                   message |-> SignInWithGoogleErrorMessage(
                                                 google.statusCodes,
                                                 [code |-> NULL, message |-> ErrNoIdToken]),
                                   user |-> NoUser]]
                  /\ UNCHANGED backend
             ELSE /\ authCall' =
                       [authCall EXCEPT !.pc = "signInWithCredential",
                          !.idToken = idToken,
                          !.trace = Append(trace, "GoogleAuthProvider.credential")]
                  /\ backend' = [backend EXCEPT !.googleSignedIn = TRUE]
        \/ /\ \E e \in GoogleErrors : GoogleFailure(trace, e)
           /\ UNCHANGED backend
  /\ UNCHANGED <<gateVars, google, login>>

SignInWithCredentialResult ==
  /\ authCall.pc = "signInWithCredential"
  /\ LET trace == Invoked("signInWithCredential")
     IN \/ \E email \in Emails :
             /\ backend' = [backend EXCEPT !.accounts = @ \cup {email},
                                           !.currentUser = email]
             /\ AuthReturn(trace, mapFirebaseUser(email, NULL))
        \/ /\ \E e \in FirebaseErrors :
                BackendFailure(trace, e,
                               SignInWithGoogleErrorMessage(google.statusCodes, e))
           /\ UNCHANGED backend
  /\ UNCHANGED <<gateVars, google, login>>

StartSignOut ==
  /\ authCall.pc = "idle"
  /\ authCall' = [IdleAuthCall EXCEPT !.op = "signOut", !.origin = "direct",
                    !.pc = IF google.googleSignInAvailable /\ google.GoogleSignin
                           THEN "isSignedIn" ELSE "firebaseSignOut"]
  /\ UNCHANGED <<gateVars, google, backend, login>>

\* signOut: a Google call rejected with e inside the inner try.
SignOutGoogleFailure(trace, e) ==
  LET rethrown == SignOutGoogleCatch(e)
  IN IF rethrown = NoError
     THEN authCall' = [authCall EXCEPT !.pc = "firebaseSignOut", !.trace = trace,
                         !.googleError = e]
     ELSE authCall' = [authCall EXCEPT !.pc = "done", !.trace = trace,
                         !.googleError = e,
                         !.ret = [kind |-> "thrown",
                                  message |-> getAuthErrorMessage(rethrown.code),
                                  user |-> NoUser]]

IsSignedInResult ==
  /\ authCall.pc = "isSignedIn"
  /\ LET trace == Invoked("GoogleSignin.isSignedIn")
     IN \/ authCall' = [authCall EXCEPT !.trace = trace,
                          !.pc = IF backend.googleSignedIn
                                 THEN "googleSignOut" ELSE "firebaseSignOut"]
        \/ \E e \in GoogleErrors : SignOutGoogleFailure(trace, e)
  /\ UNCHANGED <<gateVars, google, backend, login>>

GoogleSignOutResult ==
  /\ authCall.pc = "googleSignOut"
  /\ LET trace == Invoked("GoogleSignin.signOut")
     IN \/ /\ authCall' = [authCall EXCEPT !.pc = "firebaseSignOut", !.trace = trace]
           /\ backend' = [backend EXCEPT !.googleSignedIn = FALSE]
        \/ /\ \E e \in GoogleErrors : SignOutGoogleFailure(trace, e)
           /\ UNCHANGED backend
  /\ UNCHANGED <<gateVars, google, login>>

FirebaseSignOutResult ==
  /\ authCall.pc = "firebaseSignOut"
  /\ LET trace == Invoked("firebaseSignOut")
     IN \/ /\ backend' = [backend EXCEPT !.currentUser = NULL]
           /\ AuthReturn(trace, NoUser)
        \/ /\ \E e \in FirebaseErrors :
                BackendFailure(trace, e, getAuthErrorMessage(e.code))
           /\ UNCHANGED backend
  /\ UNCHANGED <<gateVars, google, login>>

StartResetPassword ==
  \E email \in Emails :
    AuthBegin("resetPassword", "sendPasswordResetEmail", email, NULL, NULL)

ResetPasswordResult ==
  /\ authCall.pc = "sendPasswordResetEmail"
  /\ LET trace == Invoked("sendPasswordResetEmail")
     IN \/ AuthReturn(trace, NoUser)
        \/ \E e \in FirebaseErrors :
             BackendFailure(trace, e, getAuthErrorMessage(e.code))
  /\ UNCHANGED <<gateVars, google, backend, login>>

\* The caller has taken the result; the next call may start.
AuthFinish ==
  /\ authCall.pc = "done"
  /\ authCall' = IdleAuthCall
  /\ UNCHANGED <<gateVars, google, backend, login>>

InitAuth ==
  /\ secureStore = EmptyStore
  /\ deviceHardware = FALSE
  /\ deviceEnrolled = FALSE
  /\ calls = [p \in Procs |-> IdleCall]
  /\ lastMut = NoMut
  /\ google \in {ModuleInit(outcome) : outcome \in LoadOutcomes}
  /\ backend = NoBackend
  /\ authCall = IdleAuthCall
  /\ login = NoLogin
  /\ probe = IdleProbe

NextAuth ==
  \/ StartSignUp
  \/ CreateUserResult
  \/ UpdateProfileResult
  \/ StartSignIn
  \/ SignInResult
  \/ StartSignInWithGoogle
  \/ HasPlayServicesResult
  \/ GoogleSignInResult
  \/ SignInWithCredentialResult
  \/ StartSignOut
  \/ IsSignedInResult
  \/ GoogleSignOutResult
  \/ FirebaseSignOutResult
  \/ StartResetPassword
  \/ ResetPasswordResult
  \/ AuthFinish

\* The identity provider adapter alone.
SpecAuth == InitAuth /\ [][NextAuth]_vars

\* ------------------------------------------------------------- login screen
\* LoginScreen and the hooks it uses.  An attempt is a handler that awaits a
\* sign-in of the auth store; it stays in login.pending until the store call
\* settles, and the action that settles it runs the rest of the handler.

\* The loading overlay covers the form while a password sign-in is in flight.
IsLoading(l) == \E i \in 1..Len(l.pending) : l.pending[i].kind = "password"

\* How signInWithBiometrics can settle: true, false after a cancellation,
\* false after any other failure, or a rejection.
BiometricOutcomes == {"success", "cancelled", "failed", "throw"}

\* error.message of a rejected signIn / signInWithGoogle of the store.
PasswordFailureMessages == {getAuthErrorMessage("auth/wrong-password")}
GoogleFailureMessages ==
  {ErrGoogleUnavailable}
  \cup {SignInWithGoogleErrorMessage(TRUE, e) :
          e \in GoogleErrors \cup FirebaseErrors
                 \cup {[code |-> NULL, message |-> ErrNoIdToken]}}

\* message.includes('cancelled') on the messages the services produce.
IncludesCancelled(message) ==
  message \in {ErrGoogleCancelled, PromptErrorMessage("system_cancel"),
               PromptErrorMessage("app_cancel")}

\* Mutant: the cleanup of the auto-login effect leaves the timer running.
EffectCleanupKeepsTimer(timer) == timer

\* return () => clearTimeout(timer)
EffectCleanup(timer) == NoTimer

\* setTimeout(attemptBiometricLogin, 500) of a render with these flags.
SetTimer(biometricEnabled, biometricAvailable) ==
  [pending |-> TRUE, biometricEnabled |-> biometricEnabled,
   biometricAvailable |-> biometricAvailable]

\* Mutant: a manual attempt that failed for another reason than a
\* cancellation raises an alert.
BiometricFailureAlertManual(trigger, outcome) ==
  IF trigger = "manual" /\ outcome \in {"failed", "throw"}
  THEN Alert("Login Failed", "Biometric authentication failed")
  ELSE NoAlert

\* handleBiometricLogin: what it shows when signInWithBiometrics gave false
\* (clearError only) or rejected (console.log only).
BiometricFailureAlert(trigger, outcome) == NoAlert

\* Mutant: handleGoogleSignIn swallows every failure.
GoogleFailureAlertNever(message) == NoAlert

\* handleGoogleSignIn: the catch.
GoogleFailureAlert(message) ==
  IF ~IncludesCancelled(message)
  THEN Alert("Google Sign-In Failed", message)
  ELSE NoAlert

\* Mutant: the email is checked as typed, not trimmed.
ValidationAlertUntrimmed(email, password) ==
  IF ~Truthy(email) THEN Alert("Error", "Please enter your email address")
  ELSE IF ~Truthy(password) THEN Alert("Error", "Please enter your password")
  ELSE NoAlert

\* handleLogin: the two checks before signIn; NoAlert means "go on".
ValidationAlert(email, password) ==
  IF ~Truthy(Trim(email)) THEN Alert("Error", "Please enter your email address")
  ELSE IF ~Truthy(password) THEN Alert("Error", "Please enter your password")
  ELSE NoAlert

\* Mutant: the enroll question is asked after every successful sign-in.
ShouldPromptEnableAlways(biometricAvailable, biometricEnabled) == TRUE

\* handleLogin: if (biometricAvailable && !biometricEnabled) after signIn.
ShouldPromptEnable(biometricAvailable, biometricEnabled) ==
  biometricAvailable /\ ~biometricEnabled

\* The hook hands the view new flags: when a dependency of the auto-login
\* effect changed on a mounted view, the cleanup runs and the effect sets a
\* new timer.
WithStatus(l, available, enabled) ==
  LET l2 == [l EXCEPT !.biometricAvailable = available, !.biometricEnabled = enabled]
  IN IF l.mounted /\ (available # l.biometricAvailable \/ enabled # l.biometricEnabled)
     THEN [l2 EXCEPT !.timer = SetTimer(enabled, available)]
     ELSE l2

\* A handler that has reached its await.  handleLogin goes on afterwards with
\* the flags and the fields of the render it was created in.
Attempt(kind, trigger) ==
  [kind |-> kind, trigger |-> trigger, biometricAvailable |-> FALSE,
   biometricEnabled |-> FALSE, email |-> NULL, password |-> NULL]

PasswordAttempt(l, email, password) ==
  [kind |-> "password", trigger |-> "manual",
   biometricAvailable |-> l.biometricAvailable, biometricEnabled |-> l.biometricEnabled,
   email |-> Trim(email), password |-> password]

Remove(seq, i) == SubSeq(seq, 1, i - 1) \o SubSeq(seq, i + 1, Len(seq))

Caught(att, outcome, alert, message) ==
  [kind |-> att.kind, trigger |-> att.trigger, outcome |-> outcome, alert |-> alert,
   clearedError |-> att.kind = "biometric" /\ outcome \in {"cancelled", "failed"},
   message |-> message]

Result(att, outcome, alert) == Caught(att, outcome, alert, NULL)

\* The view is entered: first render, then both effects run.
Mount ==
  /\ ~login.mounted
  /\ login' = [login EXCEPT !.mounted = TRUE, !.statusCheck = "pending",
                 !.timer = SetTimer(login.biometricEnabled, login.biometricAvailable),
                 !.autoStarted = 0, !.last = NoResult, !.clearedOnTeardown = FALSE]
  /\ UNCHANGED <<gateVars, authVars>>

\* The view is torn down: the cleanup of the auto-login effect runs.
Unmount ==
  /\ login.mounted
  /\ login' = [login EXCEPT !.mounted = FALSE,
                 !.timer = EffectCleanup(login.timer),
                 !.clearedOnTeardown =
                    login.timer.pending /\ ~EffectCleanup(login.timer).pending]
  /\ UNCHANGED <<gateVars, authVars>>

\* checkBiometricStatus settles and the hook's flags take what it found.
CheckStatusResolves ==
  /\ login.statusCheck = "pending"
  /\ \E available \in BOOLEAN, enabled \in BOOLEAN :
       login' = [WithStatus(login, available, enabled) EXCEPT !.statusCheck = "done"]
  /\ UNCHANGED <<gateVars, authVars>>

\* The 500 ms have passed: attemptBiometricLogin runs with the flags of the
\* render that set the timer.
TimerFires ==
  /\ login.timer.pending
  /\ LET fired == [login EXCEPT !.timer = NoTimer,
                                !.firedUnmounted = @ \/ ~login.mounted]
     IN IF login.timer.biometricEnabled /\ login.timer.biometricAvailable
        THEN /\ Len(login.pending) < MaxPending
             /\ login.autoStarted < MaxAutoAttempts
             /\ login' = [fired EXCEPT
                            !.pending = Append(@, Attempt("biometric", "auto")),
                            !.autoStarted = @ + 1]
        ELSE login' = fired
  /\ UNCHANGED <<gateVars, authVars>>

\* handleLogin, up to the await of signIn.
TapSignIn ==
  /\ login.mounted /\ ~IsLoading(login)
  /\ \E email \in EmailInputs, password \in PasswordInputs :
       LET alert == ValidationAlert(email, password)
           att == PasswordAttempt(login, email, password)
       IN IF alert # NoAlert
          THEN login' = [login EXCEPT !.last = Result(att, "invalid", alert)]
          ELSE /\ Len(login.pending) < MaxPending
               /\ login' = [login EXCEPT !.pending = Append(@, att)]
  /\ UNCHANGED <<gateVars, authVars>>

\* One of the two biometric buttons, rendered when both flags are true.
TapBiometric ==
  /\ login.mounted /\ ~IsLoading(login)
  /\ login.biometricAvailable /\ login.biometricEnabled
  /\ Len(login.pending) < MaxPending
  /\ login' = [login EXCEPT !.pending = Append(@, Attempt("biometric", "manual"))]
  /\ UNCHANGED <<gateVars, authVars>>

\* The Google button, rendered when googleSignInEnabled.
TapGoogle ==
  /\ login.mounted /\ ~IsLoading(login)
  /\ google.googleSignInAvailable
  /\ Len(login.pending) < MaxPending
  /\ login' = [login EXCEPT !.pending = Append(@, Attempt("google", "manual"))]
  /\ UNCHANGED <<gateVars, authVars>>

\* handleBiometricLogin, after the await.
BiometricResolves ==
  /\ \E i \in 1..Len(login.pending), outcome \in BiometricOutcomes :
       LET att == login.pending[i]
       IN /\ att.kind = "biometric"
          /\ login' =
               [login EXCEPT
                  !.pending = Remove(@, i),
                  !.last = Result(att, outcome,
                                  IF outcome = "success" THEN NoAlert
                                  ELSE BiometricFailureAlert(att.trigger, outcome))]
  /\ UNCHANGED <<gateVars, authVars>>

\* handleLogin, after the await.
PasswordResolves ==
  /\ \E i \in 1..Len(login.pending) :
       LET att == login.pending[i]
       IN /\ att.kind = "password"
          /\ \/ IF ShouldPromptEnable(att.biometricAvailable, att.biometricEnabled)
                THEN login' =
                       [login EXCEPT
                          !.pending = Remove(@, i),
                          !.enrollPrompt = [state |-> "shown", email |-> att.email,
                                            password |-> att.password],
                          !.last = Result(att, "success",
                                          Alert("Enable Biometric Login?", NULL))]
                ELSE login' = [login EXCEPT !.pending = Remove(@, i),
                                 !.last = Result(att, "success", NoAlert)]
             \/ \E message \in PasswordFailureMessages :
                  login' = [login EXCEPT !.pending = Remove(@, i),
                              !.last = Caught(att, "failed",
                                              Alert("Login Failed", message), message)]
  /\ UNCHANGED <<gateVars, authVars>>

\* handleGoogleSignIn, after the await.
GoogleResolves ==
  /\ \E i \in 1..Len(login.pending) :
       LET att == login.pending[i]
       IN /\ att.kind = "google"
          /\ \/ login' = [login EXCEPT !.pending = Remove(@, i),
                            !.last = Result(att, "success", NoAlert)]
             \/ \E message \in GoogleFailureMessages :
                  login' = [login EXCEPT !.pending = Remove(@, i),
                              !.last = Caught(att, "failed", GoogleFailureAlert(message),
                                              message)]
  /\ UNCHANGED <<gateVars, authVars>>

\* promptEnableBiometric: 'Not Now'.
EnrollNotNow ==
  /\ login.enrollPrompt.state = "shown"
  /\ login' = [login EXCEPT !.enrollPrompt = NoEnrollPrompt]
  /\ UNCHANGED <<gateVars, authVars>>

\* promptEnableBiometric: 'Enable', up to the await of enableBiometricLogin.
EnrollEnable ==
  /\ login.enrollPrompt.state = "shown"
  /\ login' = [login EXCEPT !.enrollPrompt.state = "enabling"]
  /\ UNCHANGED <<gateVars, authVars>>

\* promptEnableBiometric: 'Enable', after the await.
EnableResolves ==
  /\ login.enrollPrompt.state = "enabling"
  /\ LET att == [kind |-> "enable", trigger |-> "manual"]
     IN \/ login' = [WithStatus(login, login.biometricAvailable, TRUE) EXCEPT
                       !.enrollPrompt = NoEnrollPrompt,
                       !.last = Result(att, "success", Alert("Success!", NULL))]
        \/ login' = [login EXCEPT
                       !.enrollPrompt = NoEnrollPrompt,
                       !.last = Result(att, "failed",
                                       Alert("Error", "Failed to enable biometric login"))]
  /\ UNCHANGED <<gateVars, authVars>>

InitLogin ==
  /\ secureStore = EmptyStore
  /\ deviceHardware = FALSE
  /\ deviceEnrolled = FALSE
  /\ calls = [p \in Procs |-> IdleCall]
  /\ lastMut = NoMut
  /\ google \in {ModuleInit("absent"), ModuleInit("loaded")}
  /\ backend = NoBackend
  /\ authCall = IdleAuthCall
  /\ login = NoLogin
  /\ probe = IdleProbe

NextLogin ==
  \/ Mount
  \/ Unmount
  \/ CheckStatusResolves
  \/ TimerFires
  \/ TapSignIn
  \/ TapBiometric
  \/ TapGoogle
  \/ BiometricResolves
  \/ PasswordResolves
  \/ GoogleResolves
  \/ EnrollNotNow
  \/ EnrollEnable
  \/ EnableResolves

\* The login screen alone.
SpecLogin == InitLogin /\ [][NextLogin]_vars

\* ------------------------------------------------------------------- claims

Enabled == secureStore[BIOMETRIC_ENABLED_KEY] = "true"

\* Both credential keys are in the secure store.
CredentialExists ==
  secureStore[STORED_EMAIL_KEY] # NULL /\ secureStore[STORED_PASSWORD_KEY] # NULL

\* The call of task p has completed and its result is there to inspect.
Completed(p, op) == calls[p].op = op /\ calls[p].pc = "done"

\* The last mutation of the store was an enroll / a disable that returned.
AfterEnroll == lastMut.op = "enroll" /\ lastMut.ok
AfterDisable == lastMut.op = "disable" /\ lastMut.ok
EnrolledPair == [email |-> lastMut.email, password |-> lastMut.password]

\* C1: a canOffer() whose availability probes gave hasHardware AND isEnrolled =
\* false returns false, whatever the secure store holds.
C1_CanOfferFalseWhenUnavailable ==
  \A p \in Procs :
    (Completed(p, "canOffer") /\ ~(calls[p].hw /\ calls[p].enr))
      => (calls[p].ret.kind = "returned" /\ calls[p].ret.value = FALSE)

C1_Witness ==
  \E p \in Procs :
    /\ Completed(p, "canOffer")
    /\ ~(calls[p].hw /\ calls[p].enr)
    /\ calls[p].enabled
    /\ Enabled /\ CredentialExists

\* C2 as stated: after a successful enroll(e, p) every canOffer() returns true
\* (granted that none of its secure-store reads fails), and an authenticate()
\* whose platform prompt succeeded returns exactly {e, p}.
C2_AsStated ==
  \A p \in Procs :
    AfterEnroll =>
      /\ (Completed(p, "canOffer") /\ ~calls[p].faults) => calls[p].ret.value = TRUE
      /\ (Completed(p, "authenticate") /\ calls[p].outcome = "success")
           => (calls[p].ret.value = TRUE /\ calls[p].ret.credentials = EnrolledPair)

\* C2 amended: after a successful enroll(e, p), a canOffer() that finds the
\* device available and whose secure-store reads succeed returns true; an
\* authenticate() in the same conditions reaches the platform prompt, and one
\* whose prompt succeeded returns exactly {e, p}.
C2_EnrollThenOfferAndAuthenticate ==
  \A p \in Procs :
    AfterEnroll =>
      /\ (Completed(p, "canOffer") /\ calls[p].hw /\ calls[p].enr /\ ~calls[p].faults)
           => calls[p].ret.value = TRUE
      /\ (Completed(p, "authenticate") /\ calls[p].hw /\ calls[p].enr /\ ~calls[p].faults)
           => calls[p].prompts = 1
      /\ (Completed(p, "authenticate") /\ calls[p].outcome = "success")
           => (calls[p].ret.value = TRUE /\ calls[p].ret.credentials = EnrolledPair)

C2_Witness ==
  \E p \in Procs :
    /\ AfterEnroll
    /\ EnrolledPair = [email |-> "c@d.com", password |-> "secret1"]
    /\ lastMut.before[STORED_EMAIL_KEY] = "a@b.com"
    /\ Completed(p, "authenticate")
    /\ calls[p].outcome = "success"
    /\ calls[p].ret.credentials = EnrolledPair

\* C3 as stated: after disable() has returned, canOffer() returns false and
\* authenticate() fails with 'Biometric login is not enabled'.
C3_AsStated ==
  \A p \in Procs :
    AfterDisable =>
      /\ Completed(p, "canOffer") => calls[p].ret.value = FALSE
      /\ Completed(p, "authenticate")
           => (calls[p].ret.value = FALSE /\ calls[p].ret.error = ErrNotEnabled)

\* C3 amended: after disable() has returned, canOffer() returns false and
\* authenticate() fails without prompting and without credentials, with
\* NotEnabled when it found the device available and NotAvailable otherwise,
\* also when the email/password keys are still in the store.
C3_DisabledStaysClosed ==
  \A p \in Procs :
    AfterDisable =>
      /\ Completed(p, "canOffer") => calls[p].ret.value = FALSE
      /\ Completed(p, "authenticate")
           => /\ calls[p].ret.value = FALSE
              /\ calls[p].ret.credentials = NoCredentials
              /\ calls[p].prompts = 0
              /\ calls[p].ret.error =
                   IF calls[p].hw /\ calls[p].enr THEN ErrNotEnabled ELSE ErrNotAvailable

C3_Witness ==
  \E p \in Procs :
    /\ AfterDisable
    /\ CredentialExists
    /\ Completed(p, "authenticate")
    /\ calls[p].ret.error = ErrNotEnabled

\* C4: an authenticate() that finds isAvailable() false fails with NotAvailable,
\* has not invoked the platform prompt and leaves the secure store as it was.
C4_UnavailableFailsWithoutPrompt ==
  \A p \in Procs :
    (Completed(p, "authenticate") /\ ~(calls[p].hw /\ calls[p].enr))
      => /\ calls[p].ret =
              [kind |-> "returned", value |-> FALSE, error |-> ErrNotAvailable,
               credentials |-> NoCredentials]
         /\ calls[p].prompts = 0
         /\ secureStore = calls[p].store0

C4_Witness ==
  \E p \in Procs :
    /\ Completed(p, "authenticate")
    /\ ~(calls[p].hw /\ calls[p].enr)
    /\ Enabled /\ CredentialExists

\* C5: a disable() that follows a disable() (no store failure in either)
\* returns without raising and leaves the store as the first one left it.
C5_DisableIdempotent ==
  \A p \in Procs :
    (/\ Completed(p, "disable") /\ ~calls[p].faults
     /\ AfterDisable /\ ~lastMut.faults)
      => (calls[p].ret.kind = "returned" /\ secureStore = calls[p].store0)

C5_Witness ==
  \E p \in Procs :
    /\ Completed(p, "disable") /\ ~calls[p].faults
    /\ AfterDisable /\ ~lastMut.faults
    /\ lastMut.before[BIOMETRIC_ENABLED_KEY] = "true"
    /\ lastMut.before[STORED_EMAIL_KEY] # NULL
    /\ lastMut.before[STORED_PASSWORD_KEY] # NULL
    /\ secureStore = EmptyStore

\* C6: between completed operations the cached credential exists if and only
\* if the enabled flag is true.
C6_CredentialIffEnabled ==
  NoCallInFlight => (CredentialExists <=> Enabled)

\* C7: in every reachable state of serialized enroll/disable calls, inside a
\* call and after a failed one alike, enabled implies that the cached
\* credential exists.
C7_EnabledImpliesCredential ==
  Enabled => CredentialExists

C7_Witness ==
  \E p \in Procs :
    /\ Completed(p, "enroll")
    /\ calls[p].ret.kind = "thrown"
    /\ calls[p].store0[BIOMETRIC_ENABLED_KEY] = "true"
    /\ secureStore[STORED_EMAIL_KEY] # calls[p].store0[STORED_EMAIL_KEY]
    /\ Enabled

\* C8: no operation returns the cached credential to its caller while the
\* enabled flag is false.
C8_NoCredentialWhileDisabled ==
  \A p \in Procs :
    (calls[p].pc = "done" /\ calls[p].ret.credentials # NoCredentials) => Enabled

\* C9: the email/password keys are read only after a successful platform
\* biometric verification of the same call.
C9_ReadOnlyAfterVerification ==
  \A p \in Procs : calls[p].credRead => calls[p].verified

\* C10: after disable() or setBiometricEnabled(false) returns without error,
\* neither the email key nor the password key remains in the secure store.
C10_ErasedWhenDisabled ==
  \A p \in Procs :
    (/\ calls[p].pc = "done"
     /\ calls[p].op = "disable" \/ (calls[p].op = "setBiometricEnabled" /\ ~calls[p].flag)
     /\ calls[p].ret.kind = "returned")
      => (secureStore[STORED_EMAIL_KEY] = NULL /\ secureStore[STORED_PASSWORD_KEY] = NULL)

\* The failure kind the gate's contract gives each platform error code.
FailureKind(code) ==
  CASE code = "system_cancel" -> "SystemCancelled"
    [] code = "user_cancel" -> "UserCancelled"
    [] code = "authentication_failed" -> "VerificationFailed"
    [] code = "not_enrolled" -> "NotEnrolled"
    [] code = "not_available" -> "NotAvailable"
    [] code = "passcode_not_set" -> "PasscodeNotSet"
    [] code = "timeout" -> "Timeout"
    [] OTHER -> "Unknown"

\* C11: when the platform prompt reports an error code, the error authenticate()
\* returns tells the code's failure kind apart from every other kind; in
\* particular a user cancellation is not reported like an unknown failure.
C11_FailureKindDistinguishable ==
  \A p \in Procs :
    (Completed(p, "authenticate") /\ calls[p].outcome \in PromptErrorCodes)
      => \A other \in PromptErrorCodes :
           FailureKind(other) # FailureKind(calls[p].outcome)
             => PromptErrorMessage(other) # calls[p].ret.error

\* The adapter call has completed and its result is there to inspect.
AuthCompleted(op) == authCall.op = op /\ authCall.pc = "done"

\* C12: whenever a backend (Firebase Auth) operation of an adapter call fails,
\* the call fails with the taxonomy entry of the backend's error code, and with
\* the Unknown entry for a code that has none.
C12_BackendFailureMapped ==
  (authCall.pc = "done" /\ authCall.backendError # NoError)
    => /\ authCall.ret.kind = "thrown"
       /\ authCall.ret.message = getAuthErrorMessage(authCall.backendError.code)

\* C13: a signUp whose account creation succeeded and whose display-name
\* update failed keeps the account and still returns the session's user.
C13_SignUpSurvivesProfileFailure ==
  (AuthCompleted("signUp") /\ authCall.created /\ authCall.backendError # NoError)
    => /\ authCall.email \in backend.accounts
       /\ authCall.ret.kind = "returned"
       /\ authCall.ret.user.email = authCall.email

\* LoginScreen: googleSignInEnabled, and the Google section it renders.
googleSignInEnabled == isGoogleSignInAvailable
GoogleButtonOffered == googleSignInEnabled

\* C14: the Google state is what module start-up decided and never changes;
\* when the module could not be loaded, isGoogleSignInAvailable() is false,
\* the login screen does not offer the Google button, and a signInWithGoogle()
\* fails with ProviderUnavailable having invoked no external operation.
C14_GoogleAvailabilityFixed ==
  /\ google.GoogleSignin = (google.load \notin {"absent", "noExport"})
  /\ google.googleSignInAvailable = (google.load # "absent")
  /\ google.load = "absent" =>
       /\ ~isGoogleSignInAvailable
       /\ ~GoogleButtonOffered
       /\ authCall.op = "signInWithGoogle" =>
            /\ authCall.pc = "done"
            /\ authCall.ret.kind = "thrown"
            /\ authCall.ret.message = ErrGoogleUnavailable
            /\ authCall.trace = <<>>

C14_Witness ==
  /\ google.load = "absent"
  /\ backend.currentUser # NULL
  /\ AuthCompleted("signInWithGoogle")
  /\ authCall.ret.message = ErrGoogleUnavailable

SignInWithGoogleOrder ==
  <<"hasPlayServices", "GoogleSignin.signIn", "GoogleAuthProvider.credential",
    "signInWithCredential">>

C16_SignOutBestEffort ==
  authCall.op = "signOut" =>
    /\ \A i \in 1..Len(authCall.trace) :
         authCall.trace[i] = "firebaseSignOut" => i = Len(authCall.trace)
    /\ authCall.pc = "done" =>
         /\ Len(authCall.trace) >= 1
         /\ authCall.trace[Len(authCall.trace)] = "firebaseSignOut"
         /\ authCall.ret.kind = "thrown" <=> authCall.backendError # NoError

C16_Witness ==
  /\ AuthCompleted("signOut")
  /\ authCall.googleError # NoError
  /\ authCall.trace = <<"GoogleSignin.isSignedIn", "GoogleSignin.signOut", "firebaseSignOut">>
  /\ authCall.ret.kind = "returned"
  /\ backend.googleSignedIn
  /\ backend.currentUser = NULL

\* C17: at most one authentication attempt (password, automatic or manual
\* biometric, Google) is in flight at any time.
C17_OneAttemptInFlight == Len(login.pending) <= 1

\* C18: in one view entry at most one automatic biometric attempt is started,
\* whatever changes of the biometric status follow.
C18_OneAutoAttemptPerEntry == login.autoStarted <= 1

\* C19: once the login view is torn down no timer of the auto-login effect is
\* pending, and the timer's callback has never run on a torn-down view.
C19_TimerCancelledOnTeardown ==
  /\ ~login.mounted => ~login.timer.pending
  /\ ~login.firedUnmounted

C19_Witness ==
  /\ ~login.mounted
  /\ login.clearedOnTeardown
  /\ login.biometricAvailable /\ login.biometricEnabled
  /\ login.autoStarted = 0
  /\ login.pending = <<>>

ManualBiometricFailed ==
  /\ login.last.kind = "biometric"
  /\ login.last.trigger = "manual"
  /\ login.last.outcome \in {"failed", "throw"}

\* C20 as stated: a manual biometric attempt that failed for another reason
\* than a cancellation has raised an alert.
C20_AsStated == ManualBiometricFailed => login.last.alert # NoAlert

\* C20 amended: a manual biometric attempt that did not succeed, cancelled or
\* not, raises no alert; when signInWithBiometrics gave false the handler has
\* called clearError().
C20_ManualFailureSilent ==
  (/\ login.last.kind = "biometric"
   /\ login.last.trigger = "manual"
   /\ login.last.outcome # "success")
    => /\ login.last.alert = NoAlert
       /\ login.last.outcome \in {"cancelled", "failed"} => login.last.clearedError

C20_Witness ==
  /\ ManualBiometricFailed
  /\ login.last.outcome = "failed"
  /\ login.last.alert = NoAlert
  /\ login.mounted

\* C21: an automatic biometric attempt that did not succeed has raised no
\* alert and has cleared the store's error state.
C21_AutoFailureSilent ==
  (/\ login.last.kind = "biometric"
   /\ login.last.trigger = "auto"
   /\ login.last.outcome # "success")
    => /\ login.last.alert = NoAlert
       /\ login.last.clearedError

\* C22: every password sign-in in flight was started with a non-empty trimmed
\* email and a non-empty password, and a submit that failed the validation
\* starts no sign-in.
C22_NoSignInWithEmptyFields ==
  /\ [](\A i \in 1..Len(login.pending) :
          login.pending[i].kind = "password"
            => (Truthy(login.pending[i].email) /\ Truthy(login.pending[i].password)))
  /\ [][(login'.last # login.last /\ login'.last.outcome = "invalid")
          => login'.pending = login.pending]_vars

C22_Witness ==
  /\ login.last.kind = "password"
  /\ login.last.outcome = "invalid"
  /\ login.last.alert = Alert("Error", "Please enter your email address")
  /\ login.pending = <<>>
  /\ login.mounted

EnrollQuestion == "Enable Biometric Login?"

\* The step completes the password sign-in att of handleLogin.
PasswordSignInSettles(att) ==
  /\ att.kind = "password"
  /\ \E i \in 1..Len(login.pending) :
       login.pending[i] = att /\ login'.pending = Remove(login.pending, i)
  /\ login'.last.kind = "password"
  /\ login'.last.outcome \in {"success", "failed"}

\* C23: a password sign-in that succeeded asks the enroll question if and
\* only if the view had biometrics available and not enabled when the submit
\* was tapped, and then for the credential that was submitted; one that failed
\* alerts the mapped message and asks nothing; the question appears only on a
\* successful sign-in, and enableBiometricLogin starts only from a question
\* that is showing, by the user's Enable.
C23_EnrollmentOptIn ==
  [][/\ \A i \in 1..Len(login.pending) :
          LET att == login.pending[i]
          IN PasswordSignInSettles(att) =>
               IF login'.last.outcome = "success"
               THEN /\ login'.last.alert.title = EnrollQuestion
                         <=> (att.biometricAvailable /\ ~att.biometricEnabled)
                    /\ login'.last.alert.title = EnrollQuestion
                         => login'.enrollPrompt =
                              [state |-> "shown", email |-> att.email,
                               password |-> att.password]
                    /\ login'.last.alert.title # EnrollQuestion
                         => login'.enrollPrompt = login.enrollPrompt
               ELSE /\ login'.last.alert.title = "Login Failed"
                    /\ login'.last.alert.message \in PasswordFailureMessages
                    /\ login'.enrollPrompt = login.enrollPrompt
     /\ (login'.enrollPrompt.state = "shown" /\ login'.enrollPrompt # login.enrollPrompt)
          => (login'.last.kind = "password" /\ login'.last.outcome = "success")
     /\ (login'.enrollPrompt.state = "enabling" /\ login.enrollPrompt.state # "enabling")
          => (login.enrollPrompt.state = "shown"
              /\ login'.enrollPrompt.email = login.enrollPrompt.email
              /\ login'.enrollPrompt.password = login.enrollPrompt.password)]_vars

C23_Witness ==
  /\ login.last.kind = "password"
  /\ login.last.outcome = "success"
  /\ login.last.alert.title = EnrollQuestion
  /\ login.enrollPrompt =
       [state |-> "enabling", email |-> "a@b.com", password |-> "secret1"]
  /\ login.biometricAvailable /\ ~login.biometricEnabled

ProbeOps == {"hasHardware", "isEnrolled", "supportedModalities", "isAvailable"}

FirstQuery(op) ==
  IF op = "isEnrolled" THEN "isEnrolled"
  ELSE IF op = "supportedModalities" THEN "getTypes"
  ELSE "hasHardware"

ProbeReturn(value, types) == [kind |-> "returned", value |-> value, types |-> types]

CapabilityStart ==
  /\ probe.pc = "idle"
  /\ \E op \in ProbeOps : probe' = [IdleProbe EXCEPT !.op = op, !.pc = FirstQuery(op)]
  /\ UNCHANGED <<secureStore, deviceHardware, deviceEnrolled, calls, lastMut, authVars, login>>

\* LocalAuthentication.hasHardwareAsync() answers or throws.
CapabilityHasHardware ==
  /\ probe.pc = "hasHardware"
  /\ \E ok \in BOOLEAN :
       LET hw == HasHardwareAsync(ok, deviceHardware)
       IN probe' =
            IF probe.op = "hasHardware"
            THEN [probe EXCEPT !.pc = "done", !.hwOk = ok, !.hw = hw,
                               !.ret = ProbeReturn(hw, {})]
            ELSE [probe EXCEPT !.pc = "isEnrolled", !.hwOk = ok, !.hw = hw]
  /\ UNCHANGED <<secureStore, deviceHardware, deviceEnrolled, calls, lastMut, authVars, login>>

\* LocalAuthentication.isEnrolledAsync() answers or throws.
CapabilityIsEnrolled ==
  /\ probe.pc = "isEnrolled"
  /\ \E ok \in BOOLEAN :
       LET enr == IsEnrolledAsync(ok, deviceEnrolled)
       IN probe' =
            [probe EXCEPT !.pc = "done", !.enrOk = ok, !.enr = enr,
                          !.ret = IF probe.op = "isEnrolled"
                                  THEN ProbeReturn(enr, {})
                                  ELSE ProbeReturn(IsBiometricAvailable(probe.hw, enr), {})]
  /\ UNCHANGED <<secureStore, deviceHardware, deviceEnrolled, calls, lastMut, authVars, login>>

\* LocalAuthentication.supportedAuthenticationTypesAsync() answers with a
\* list of platform types or throws.
CapabilitySupportedTypes ==
  /\ probe.pc = "getTypes"
  /\ \E ok \in BOOLEAN, types \in SUBSET AuthenticationTypes :
       /\ ~ok => types = {}
       /\ probe' =
            [probe EXCEPT !.pc = "done", !.typesOk = ok, !.platformTypes = types,
                          !.ret = ProbeReturn(FALSE,
                                              IF ok THEN GetSupportedBiometricTypes(types)
                                                    ELSE SupportedTypesOnError)]
  /\ UNCHANGED <<secureStore, deviceHardware, deviceEnrolled, calls, lastMut, authVars, login>>

\* The caller takes the result; the next probe may start.
CapabilityFinish ==
  /\ probe.pc = "done"
  /\ probe' = IdleProbe
  /\ UNCHANGED <<secureStore, deviceHardware, deviceEnrolled, calls, lastMut, authVars, login>>

InitProbe ==
  /\ secureStore = EmptyStore
  /\ deviceHardware \in BOOLEAN
  /\ deviceEnrolled \in BOOLEAN
  /\ calls = [p \in Procs |-> IdleCall]
  /\ lastMut = NoMut
  /\ google = ModuleInit("absent")
  /\ backend = NoBackend
  /\ authCall = IdleAuthCall
  /\ login = NoLogin
  /\ probe = IdleProbe

NextProbe ==
  \/ CapabilityStart
  \/ CapabilityHasHardware
  \/ CapabilityIsEnrolled
  \/ CapabilitySupportedTypes
  \/ CapabilityFinish
  \/ EnrollmentChange

SpecProbe == InitProbe /\ [][NextProbe]_vars

\* C25 as stated: no probe propagates a failed platform query; hasHardware()
\* and isEnrolled() return false when their query fails, supportedModalities()
\* returns the empty set when its query fails, and isAvailable() is false
\* whenever either of its two queries fails.
C25_AsStated ==
  probe.pc = "done" =>
    /\ probe.ret.kind = "returned"
    /\ (probe.op = "hasHardware" /\ ~probe.hwOk) => probe.ret.value = FALSE
    /\ (probe.op = "isEnrolled" /\ ~probe.enrOk) => probe.ret.value = FALSE
    /\ (probe.op = "supportedModalities" /\ ~probe.typesOk) => probe.ret.types = {}
    /\ (probe.op = "isAvailable" /\ (~probe.hwOk \/ ~probe.enrOk))
         => probe.ret.value = FALSE

\* C25 amended: no probe propagates a failed platform query; hasHardware() and
\* isEnrolled() return false when their query fails, supportedModalities()
\* returns the one-element list ['none'] when its query fails (the same list
\* it returns when the platform reports no known modality; it never returns
\* an empty list), and isAvailable() is false whenever either query fails.
C25_ProbesNeverPropagate ==
  probe.pc = "done" =>
    /\ probe.ret.kind = "returned"
    /\ (probe.op = "hasHardware" /\ ~probe.hwOk) => probe.ret.value = FALSE
    /\ (probe.op = "isEnrolled" /\ ~probe.enrOk) => probe.ret.value = FALSE
    /\ probe.op = "supportedModalities" =>
         /\ probe.ret.types # {}
         /\ ~probe.typesOk => probe.ret.types = {"none"}
         /\ (probe.platformTypes \subseteq {"OTHER"}) => probe.ret.types = {"none"}
    /\ (probe.op = "isAvailable" /\ (~probe.hwOk \/ ~probe.enrOk))
         => probe.ret.value = FALSE

\* isAvailable() has returned after its hardware query failed on a device
\* that has enrolled biometric hardware.
C25_Witness ==
  /\ probe.pc = "done"
  /\ probe.op = "isAvailable"
  /\ ~probe.hwOk
  /\ probe.enrOk
  /\ deviceHardware
  /\ deviceEnrolled
  /\ probe.ret.value = FALSE


\* The pending platform calls of authenticate(), in program order.
AuthenticateStage(pc) ==
  CASE pc = "hasHardware" -> 1
    [] pc = "isEnrolled" -> 2
    [] pc = "getEnabled" -> 3
    [] pc = "getEmail" -> 4
    [] pc = "getPassword" -> 5
    [] pc = "getTypes" -> 6
    [] pc = "prompt" -> 7
    [] OTHER -> 0

Caller == "t1"
Disabler == "t2"

\* The accounts whose email and password are passed to enroll together, and
\* the prompt results looked at in the race.
Accounts ==
  {[email |-> "a@b.com", password |-> "secret1"],
   [email |-> "c@d.com", password |-> "secret2"]}

RaceOutcomes == {NULL, "success", "user_cancel"}

RaceEnroll ==
  /\ calls[Caller].pc = "idle"
  /\ \E a \in Accounts :
       Begin(Caller, BeginMutation("enroll", a.email, a.password, FALSE))

RaceAuthenticate ==
  /\ calls[Caller].pc = "idle"
  /\ Begin(Caller, [IdleCall EXCEPT !.op = "authenticate", !.pc = "hasHardware"])

RaceDisable ==
  /\ calls[Disabler].pc = "idle"
  /\ Begin(Disabler, BeginMutation("disable", NULL, NULL, FALSE))

\* A step of a call in which the SecureStore call it awaited did not fail.
RaceStep(p) ==
  /\ Step(p)
  /\ ~calls'[p].faults
  /\ calls'[p].outcome \in RaceOutcomes

InitRace ==
  /\ secureStore = EmptyStore
  /\ deviceHardware = TRUE
  /\ deviceEnrolled = TRUE
  /\ calls = [p \in Procs |-> IdleCall]
  /\ lastMut = NoMut
  /\ google = ModuleInit("absent")
  /\ backend = NoBackend
  /\ authCall = IdleAuthCall
  /\ login = NoLogin
  /\ probe = IdleProbe

NextRace ==
  \/ RaceEnroll
  \/ RaceAuthenticate
  \/ RaceDisable
  \/ \E p \in Procs : RaceStep(p)

SpecRace == InitRace /\ [][NextRace]_vars

\* The secure-store keys whose value a step changes.
KeysChanged == {k \in DOMAIN secureStore : secureStore'[k] # secureStore[k]}

\* C27: a store operation is atomic per key and nothing groups the keys: every
\* step of unserialized, never failing enroll and disable calls changes at
\* most one key, and it is the key of the SecureStore call that completed.
\* (The interleaving the claim names is C27_Witness.)
C27_AtomicPerKeyOnly ==
  [][/\ Cardinality(KeysChanged) <= 1
     /\ \A k \in KeysChanged :
          \E p \in Procs :
            /\ calls[p].pc = "store"
            /\ Program(calls[p])[calls[p].idx].key = k
            /\ calls'[p] # calls[p]]_vars

\* One enroll(e, p) and one disable(), started on the empty store, have both
\* returned with no SecureStore call failing, and the flag is set while no
\* credential is cached.
C27_Witness ==
  /\ Completed(Caller, "enroll")
  /\ Completed(Disabler, "disable")
  /\ calls[Caller].ret.kind = "returned"
  /\ calls[Disabler].ret.kind = "returned"
  /\ ~calls[Caller].faults
  /\ ~calls[Disabler].faults
  /\ lastMut = NoMut
  /\ Enabled
  /\ ~CredentialExists


\* ----------------------------------------------- enrolling whole accounts
\* The serialized gate where every enroll(e, p) is given the email and the
\* password of one account, so that a pair mixing two accounts was never
\* passed to enroll.  SecureStore calls may fail as in Spec.
PairEnroll(p) ==
  /\ NoCallInFlight
  /\ \E a \in Accounts :
       Begin(p, BeginMutation("enroll", a.email, a.password, FALSE))

NextPairs ==
  \/ \E p \in Procs : PairEnroll(p)
  \/ \E p \in Procs : StartAuthenticate(p)
  \/ \E p \in Procs : StartDisable(p)
  \/ \E p \in Procs : Step(p)

SpecPairs == Init /\ [][NextPairs]_vars

\* C28: every {email, password} returned by a successful authenticate() is a
\* pair that was passed together to one enroll(e, p), in any serialized
\* sequence of enroll and disable calls whose store writes may fail.
C28_PairIntegrity ==
  \A p \in Procs :
    (Completed(p, "authenticate") /\ calls[p].ret.value = TRUE)
      => calls[p].ret.credentials \in Accounts


\* C29: authenticate() never returns credentials after biometric login has
\* been disabled: when a disable() that was in flight as the prompt was shown
\* has returned while the prompt is pending, the authenticate() does not
\* return success with the credential.
C29_NoCredentialAfterDisable ==
  [][(/\ calls[Caller].op = "authenticate"
      /\ calls[Caller].pc = "prompt"
      /\ calls[Caller].disableInFlight
      /\ Completed(Disabler, "disable")
      /\ calls[Disabler].ret.kind = "returned"
      /\ ~Enabled
      /\ ~CredentialExists)
       => ~(/\ calls'[Caller].pc = "done"
            /\ calls'[Caller].ret.value = TRUE
            /\ calls'[Caller].ret.credentials # NoCredentials)]_vars


\* C30: authenticate() never raises: a failed precheck, a secure-store read
\* error (reported as not enabled or as no stored credentials), a failed
\* prompt and a thrown exception are all returned as success = false with an
\* error, and a result carries credentials iff success = true.
C30_AuthenticateNeverRaises ==
  \A p \in Procs :
    Completed(p, "authenticate") =>
      LET c == calls[p]
      IN /\ c.ret.kind = "returned"
         /\ c.ret.value = FALSE <=> Truthy(c.ret.error)
         /\ c.ret.value = TRUE <=> c.ret.credentials # NoCredentials
         /\ c.ret.value = TRUE <=> c.outcome = "success"
         /\ (c.faults /\ c.prompts = 0)
              => c.ret.error \in {ErrNotEnabled, ErrNoStoredCredentials}
         /\ c.outcome = "throw" => ~c.ret.value

\* An authenticate() whose read of the stored password failed has returned
\* success = false with the no-stored-credentials error and no credentials.
C30_Witness ==
  \E p \in Procs :
    /\ Completed(p, "authenticate")
    /\ calls[p].faults
    /\ calls[p].enabled
    /\ calls[p].credRead
    /\ calls[p].ret.kind = "returned"
    /\ calls[p].ret.value = FALSE
    /\ calls[p].ret.error = ErrNoStoredCredentials
    /\ calls[p].ret.credentials = NoCredentials
    /\ CredentialExists

====
